---------------------------- MODULE Spec2Model ----------------------------
(***************************************************************************)
(* Model of src/Q33.py: analyze_enzyme_kinetics, the pipeline that reads a *)
(* spreadsheet, estimates one initial velocity per substrate column by a   *)
(* degree-1 np.polyfit over the first num_points_for_slope rows, fits the  *)
(* Michaelis-Menten law with scipy's curve_fit under bounds=(0, inf) and   *)
(* derives kcat and the catalytic efficiency.                              *)
(*                                                                         *)
(* Numbers.  A float is a pair <<n, d>>: a reduced fraction n/d with       *)
(* d > 0, or one of the IEEE specials <<1,0>> (+inf), <<-1,0>> (-inf),     *)
(* <<0,0>> (NaN).  Arithmetic is exact (no rounding, no overflow); what is *)
(* kept of IEEE is what numpy does on a division by zero: it returns an    *)
(* infinity or NaN and warns, it does not raise.  Spreadsheet cells are    *)
(* integral-valued floats and are kept as integers.  The enzyme            *)
(* concentration is counted in picomolar, so that the default 20e-12 M is  *)
(* the integer 20.                                                         *)
(***************************************************************************)
EXTENDS Integers, Sequences, FiniteSets, TLC

VARIABLES
    file,                     \* the spreadsheet behind file_path (<<>>: no such file)
    enzyme_concentration,     \* the argument, in pM
    pc,                       \* position in analyze_enzyme_kinetics
    substrate_concentrations, \* line 25
    time_points,              \* line 28
    reaction_data,            \* line 31: T rows of N cells
    initial_rates,            \* lines 35-41
    xdata,                    \* what curve_fit was given as xdata
    ydata,                    \* what curve_fit was given as ydata
    popt,                     \* <<Vmax, Km>> of line 44-45
    kcat,                     \* line 48
    catalytic_efficiency,     \* line 49
    results,                  \* the returned dict, as its items in insertion order
    error                     \* <<stage, exception>> that reached the caller

vars == <<file, enzyme_concentration, pc, substrate_concentrations, time_points,
          reaction_data, initial_rates, xdata, ydata, popt, kcat,
          catalytic_efficiency, results, error>>

-----------------------------------------------------------------------------
(* Program constants and the bounds of the explored inputs                   *)

num_points_for_slope == 5

DefaultEnzymeConcentration == 20

MaxN == 2

MaxConc == 2

MaxT == 6

MaxGap == 2

MaxParam == 3

-----------------------------------------------------------------------------
(* Floats                                                                    *)

Abs(x) == IF x < 0 THEN -x ELSE x

Sgn(x) == IF x < 0 THEN -1 ELSE IF x > 0 THEN 1 ELSE 0

RECURSIVE GCD(_, _)
GCD(a, b) == IF b = 0 THEN a ELSE GCD(b, a % b)

LCM(a, b) == (a \div GCD(a, b)) * b

Norm(n, d) ==
    IF d = 0 THEN <<Sgn(n), 0>>
    ELSE LET g == GCD(Abs(n), Abs(d))
         IN  <<(Sgn(d) * n) \div g, Abs(d) \div g>>

NaN == <<0, 0>>

PosInf == <<1, 0>>

NegInf == <<-1, 0>>

Zero == <<0, 1>>

Float(k) == <<k, 1>>

IsFinite(x) == x[2] # 0

FNeg(x) == <<-x[1], x[2]>>

\* x / y as numpy computes it on float64: a zero divisor gives +-inf or NaN.
FDiv(x, y) ==
    IF y[1] < 0 THEN Norm(-(x[1] * y[2]), -(x[2] * y[1]))
    ELSE Norm(x[1] * y[2], x[2] * y[1])

FMul(x, y) == Norm(x[1] * y[1], x[2] * y[2])

\* the three below are used on finite operands only
FAdd(x, y) ==
    LET d == LCM(x[2], y[2])
    IN  Norm(x[1] * (d \div x[2]) + y[1] * (d \div y[2]), d)

FSub(x, y) == FAdd(x, FNeg(y))

\* a/b < c/d for b, d > 0, by comparing integer parts and then the
\* reciprocals of the fractional parts (no product is formed)
RECURSIVE FracLess(_, _, _, _)
FracLess(a, b, c, d) ==
    IF a \div b # c \div d THEN a \div b < c \div d
    ELSE IF c % d = 0 THEN FALSE
    ELSE IF a % b = 0 THEN TRUE
    ELSE FracLess(d, c % d, b, a % b)

FLess(x, y) == FracLess(x[1], x[2], y[1], y[2])

RECURSIVE SumSeq(_)
SumSeq(s) == IF s = <<>> THEN 0 ELSE Head(s) + SumSeq(Tail(s))

RECURSIVE FSumSeq(_)
FSumSeq(s) == IF s = <<>> THEN Zero ELSE FAdd(Head(s), FSumSeq(Tail(s)))

Prefix(s, k) == SubSeq(s, 1, IF Len(s) < k THEN Len(s) ELSE k)

Column(m, i) == [r \in 1..Len(m) |-> m[r][i]]

Range(s) == {s[j] : j \in 1..Len(s)}

-----------------------------------------------------------------------------
(* np.polyfit(x, y, 1): the slope                                           *)

\* a slip: the covariance without the factor n
SlopeNumNoCount(x, y) ==
    SumSeq([j \in 1..Len(x) |-> x[j] * y[j]]) - SumSeq(x) * SumSeq(y)

SlopeNum(x, y) ==
    Len(x) * SumSeq([j \in 1..Len(x) |-> x[j] * y[j]]) - SumSeq(x) * SumSeq(y)

SlopeDen(x) ==
    Len(x) * SumSeq([j \in 1..Len(x) |-> x[j] * x[j]]) - SumSeq(x) * SumSeq(x)

Ok(v) == <<"ok", v>>

Err(e) == <<"raise", e>>

\* The outcomes of the call.  With two distinct abscissae the least-squares
\* slope.  With all abscissae equal to c # 0 the design matrix has rank 1:
\* polyfit warns (RankWarning) and returns lstsq's minimum-norm solution,
\* whose slope is mean(y) / (2c).  With all abscissae 0 the column scaling
\* divides 0 by 0 and lstsq is handed NaN: depending on the LAPACK build it
\* raises LinAlgError or returns NaN.
PolyfitSlope(x, y) ==
    IF Len(x) = 0 THEN {Err("TypeError")}
    ELSE IF SlopeDen(x) # 0 THEN {Ok(Norm(SlopeNum(x, y), SlopeDen(x)))}
    ELSE IF x[1] # 0 THEN {Ok(Norm(SumSeq(y), 2 * Len(x) * x[1]))}
    ELSE {Ok(NaN), Err("LinAlgError")}

\* a slip: the fit taken over every row instead of the first k
EstimateRateAllRows(times, column) == PolyfitSlope(times, column)

\* line 38: np.polyfit(time_points[:k], reaction_data[:k, i], 1)
EstimateRate(times, column) ==
    PolyfitSlope(Prefix(times, num_points_for_slope),
                 Prefix(column, num_points_for_slope))

\* a slip: a velocity of the wrong sign clamped to 0
VelocityClamped(slope) == IF slope[1] > 0 THEN Zero ELSE FNeg(slope)

\* line 39: initial_rates.append(-slope)
Velocity(slope) == FNeg(slope)

-----------------------------------------------------------------------------
(* curve_fit(michaelis_menten, xdata, ydata, bounds=(0, np.inf))            *)

\* a slip: Km multiplied with S instead of added to it
michaelis_menten_product(S, Vmax, Km) == FDiv(FMul(Vmax, S), FMul(Km, S))

\* lines 5-7
michaelis_menten(S, Vmax, Km) == FDiv(FMul(Vmax, S), FAdd(Km, S))

\* the parameter vectors within bounds=(0, inf), at the model's resolution
ParamGrid == {<<Float(v), Float(k)>> : v \in 0..MaxParam, k \in 0..MaxParam}

\* a trial point whose residuals are not finite is never accepted
Feasible(p, xs) == \A i \in 1..Len(xs) : IsFinite(michaelis_menten(xs[i], p[1], p[2]))

Residual(p, x, y) == FSub(y, michaelis_menten(x, p[1], p[2]))

\* the sum of squared residuals curve_fit minimises
Cost(p, xs, ys) ==
    FSumSeq([i \in 1..Len(xs) |->
                FMul(Residual(p, xs[i], ys[i]), Residual(p, xs[i], ys[i]))])

\* a converged fit: the feasible points of least cost
BestFit(xs, ys) ==
    LET cand == {p \in ParamGrid : Feasible(p, xs)}
        cost == {<<p, Cost(p, xs, ys)>> : p \in cand}
    IN  {a[1] : a \in {b \in cost : \A c \in cost : ~FLess(c[2], b[2])}}

\* The outcomes of the call.  check_finite=True rejects NaN and inf, empty
\* ydata is rejected, and a run that exhausts max_nfev raises RuntimeError.
\* Nothing counts the distinct values of xdata: with bounds the method is
\* 'trf', which accepts fewer residuals than parameters.
CurveFit(xs, ys) ==
    IF \E i \in 1..Len(ys) : ~IsFinite(ys[i]) THEN {Err("ValueError")}
    ELSE IF Len(ys) = 0 THEN {Err("ValueError")}
    ELSE {Ok(p) : p \in BestFit(xs, ys)} \cup {Err("RuntimeError")}

\* a slip: the turnover number as a product
KcatProduct(Vmax, enzyme) == FMul(Vmax, Float(enzyme))

\* line 48
Kcat(Vmax, enzyme) == FDiv(Vmax, Float(enzyme))

\* line 49
CatalyticEfficiency(k, Km) == FDiv(k, Km)

\* lines 52-57
ResultDict(Vmax, Km, k, eff) ==
    << <<"Km (uM)", Km>>, <<"Vmax (uM/s)", Vmax>>, <<"kcat (s^-1)", k>>,
       <<"Catalytic Efficiency (M^-1s^-1)", eff>> >>

-----------------------------------------------------------------------------
(* The spreadsheets explored.  Layout (lines 22-31): row 0 holds the         *)
(* concentrations in columns 1..-2, row 1 is skipped, rows 2.. hold the      *)
(* signal in columns 1..-2 and the time in the last column.  Every explored  *)
(* grid has at least num_points_for_slope rows of data.                      *)

NoFile == <<>>

MakeSheet(conc, times, cols) ==
    << <<0>> \o conc \o <<0>>, [c \in 1..(Len(conc) + 2) |-> 0] >>
    \o [r \in 1..Len(times) |->
            <<0>> \o [i \in 1..Len(conc) |-> cols[i][r]] \o <<times[r]>>]

Slopes == {-1, 0, 1}

EnzymeConcentrations == {-1, 0, DefaultEnzymeConcentration}

\* a strictly increasing window and two with a single distinct time
GeneralWindows == {<<0, 1, 2, 3, 4>>, <<1, 1, 1, 1, 1>>, <<0, 0, 0, 0, 0>>}

\* up to MaxN columns, each a concentration and a signal 4 + m * t
GeneralSheets ==
    UNION {
        { MakeSheet(conc, w, [i \in 1..n |-> [j \in 1..Len(w) |-> 4 + m[i] * w[j]]]) :
            conc \in [1..n -> 0..MaxConc], m \in [1..n -> Slopes], w \in GeneralWindows }
        : n \in 0..MaxN }

\* the windows starting at 0 whose successive gaps are in 0..MaxGap
GapWindows ==
    { [j \in 1..num_points_for_slope |-> SumSeq(SubSeq(g, 1, j - 1))] :
        g \in [1..(num_points_for_slope - 1) -> 0..MaxGap] }

TailSignals == {0, 9}

\* one column of concentration 1: the signal 8 + m * t, possibly raised by 1
\* at row 2, then up to MaxT - num_points_for_slope further rows
RateSheets ==
    UNION {
        { MakeSheet(<<1>>,
                    w \o [j \in 1..n |-> w[Len(w)] + j],
                    << [j \in 1..Len(w) |-> 8 + m * w[j] + (IF j = k THEN 1 ELSE 0)]
                       \o tl >>) :
            w \in GapWindows, m \in Slopes, k \in {0, 2},
            tl \in [1..n -> TailSignals] }
        : n \in 0..(MaxT - num_points_for_slope) }

\* the least common multiple of Km + S over the concentrations
RECURSIVE CommonDen(_, _)
CommonDen(conc, Km) ==
    IF conc = <<>> THEN 1 ELSE LCM(Km + Head(conc), CommonDen(Tail(conc), Km))

\* sheets whose columns fall linearly at exactly the Michaelis-Menten rate
\* Vmax * S / (Km + S): times 0, Q, 2Q, .. with Q the common denominator
SyntheticSheet(conc, Vmax, Km) ==
    LET Q == CommonDen(conc, Km)
    IN  MakeSheet(conc,
                  [j \in 1..num_points_for_slope |-> Q * (j - 1)],
                  [i \in 1..Len(conc) |->
                     [j \in 1..num_points_for_slope |->
                        ((Vmax * conc[i] * Q) \div (Km + conc[i]))
                            * (num_points_for_slope - j)]])

SyntheticSheets ==
    UNION {
        { SyntheticSheet(conc, V, K) :
            conc \in [1..n -> 0..MaxConc], V \in 1..MaxParam, K \in 1..MaxParam }
        : n \in 1..MaxN }

Inputs ==
    ((GeneralSheets \cup {NoFile}) \X EnzymeConcentrations)
    \cup ((RateSheets \cup SyntheticSheets) \X {DefaultEnzymeConcentration})

-----------------------------------------------------------------------------
(* analyze_enzyme_kinetics                                                   *)

Init ==
    /\ \E in \in Inputs : file = in[1] /\ enzyme_concentration = in[2]
    /\ pc = "start"
    /\ substrate_concentrations = <<>>
    /\ time_points = <<>>
    /\ reaction_data = <<>>
    /\ initial_rates = <<>>
    /\ xdata = <<>>
    /\ ydata = <<>>
    /\ popt = <<>>
    /\ kcat = <<>>
    /\ catalytic_efficiency = <<>>
    /\ results = <<>>
    /\ error = <<>>

\* a slip: the exception caught, NaN substituted and the result returned
RaiseCaught(stage, exc) ==
    /\ pc' = "done"
    /\ error' = <<stage, exc>>
    /\ results' = ResultDict(NaN, NaN, NaN, NaN)
    /\ UNCHANGED <<popt, kcat, catalytic_efficiency>>

\* An exception leaves the function: nothing catches it (there is no try in
\* the file), so nothing later runs and nothing is returned.
Raise(stage, exc) ==
    /\ pc' = "error"
    /\ error' = <<stage, exc>>
    /\ UNCHANGED <<popt, kcat, catalytic_efficiency, results>>

\* lines 22-31
Load ==
    /\ pc = "start"
    /\ IF file = NoFile
       THEN /\ Raise("load", "FileNotFoundError")
            /\ UNCHANGED <<substrate_concentrations, time_points, reaction_data>>
       ELSE LET W == Len(file[1])
                T == Len(file) - 2
            IN  /\ substrate_concentrations' = [i \in 1..(W - 2) |-> file[1][i + 1]]
                /\ time_points' = [r \in 1..T |-> file[r + 2][W]]
                /\ reaction_data' = [r \in 1..T |-> [i \in 1..(W - 2) |-> file[r + 2][i + 1]]]
                /\ pc' = "rates"
                /\ UNCHANGED <<popt, kcat, catalytic_efficiency, results, error>>
    /\ UNCHANGED <<file, enzyme_concentration, initial_rates, xdata, ydata>>

NumColumns == Len(reaction_data[1])

\* lines 37-39: one turn of the loop, for column i = len(initial_rates)
RateStep ==
    /\ pc = "rates"
    /\ Len(initial_rates) < NumColumns
    /\ \E out \in EstimateRate(time_points, Column(reaction_data, Len(initial_rates) + 1)) :
          IF out[1] = "ok"
          THEN /\ initial_rates' = Append(initial_rates, Velocity(out[2]))
               /\ UNCHANGED <<pc, popt, kcat, catalytic_efficiency, results, error>>
          ELSE /\ Raise("rates", out[2])
               /\ UNCHANGED initial_rates
    /\ UNCHANGED <<file, enzyme_concentration, substrate_concentrations, time_points,
                   reaction_data, xdata, ydata>>

\* line 41: the loop is over
RatesDone ==
    /\ pc = "rates"
    /\ Len(initial_rates) = NumColumns
    /\ pc' = "fit"
    /\ UNCHANGED <<file, enzyme_concentration, substrate_concentrations, time_points,
                   reaction_data, initial_rates, xdata, ydata, popt, kcat,
                   catalytic_efficiency, results, error>>

\* lines 44-45
Fit ==
    /\ pc = "fit"
    /\ xdata' = [i \in 1..Len(substrate_concentrations) |-> Float(substrate_concentrations[i])]
    /\ ydata' = initial_rates
    /\ \E out \in CurveFit(xdata', ydata') :
          IF out[1] = "ok"
          THEN /\ popt' = out[2]
               /\ pc' = "derive"
               /\ UNCHANGED <<kcat, catalytic_efficiency, results, error>>
          ELSE Raise("fit", out[2])
    /\ UNCHANGED <<file, enzyme_concentration, substrate_concentrations, time_points,
                   reaction_data, initial_rates>>

\* lines 48-49
Derive ==
    /\ pc = "derive"
    /\ kcat' = Kcat(popt[1], enzyme_concentration)
    /\ catalytic_efficiency' = CatalyticEfficiency(kcat', popt[2])
    /\ pc' = "return"
    /\ UNCHANGED <<file, enzyme_concentration, substrate_concentrations, time_points,
                   reaction_data, initial_rates, xdata, ydata, popt, results, error>>

\* lines 52-59
Return ==
    /\ pc = "return"
    /\ results' = ResultDict(popt[1], popt[2], kcat, catalytic_efficiency)
    /\ pc' = "done"
    /\ UNCHANGED <<file, enzyme_concentration, substrate_concentrations, time_points,
                   reaction_data, initial_rates, xdata, ydata, popt, kcat,
                   catalytic_efficiency, error>>

Next == Load \/ RateStep \/ RatesDone \/ Fit \/ Derive \/ Return

Spec == Init /\ [][Next]_vars

-----------------------------------------------------------------------------
(* Properties                                                                *)

ErrorStage == IF error = <<>> THEN "" ELSE error[1]

ErrorName == IF error = <<>> THEN "" ELSE error[2]

\* the first k time points and the first k signal values of column i
WindowTimes == Prefix(time_points, num_points_for_slope)

WindowSignal(i) == Prefix(Column(reaction_data, i), num_points_for_slope)

StrictlyIncreasing(t) == \A j \in 1..(Len(t) - 1) : t[j] < t[j + 1]

\* y is exactly linear in t: every chord has the slope of the first one
LinearInTime(t, y) ==
    \A j \in 1..Len(t) : (y[j] - y[1]) * (t[2] - t[1]) = (y[2] - y[1]) * (t[j] - t[1])

\* C1: for every column whose signal over the first 5 samples is exactly
\* linear in strictly increasing time, with slope m = (y2 - y1) / (t2 - t1),
\* the velocity reported at that column's position is -m; a window of
\* identical values gives velocity 0, and the rate stage raises no error.
C1_LinearSignalGivesMinusSlope ==
    /\ \A i \in 1..Len(initial_rates) :
          (StrictlyIncreasing(WindowTimes) /\ LinearInTime(WindowTimes, WindowSignal(i)))
          => /\ IsFinite(initial_rates[i])
             /\ initial_rates[i][1] * (WindowTimes[2] - WindowTimes[1])
                    = -(WindowSignal(i)[2] - WindowSignal(i)[1]) * initial_rates[i][2]
             /\ (Cardinality(Range(WindowSignal(i))) = 1 => initial_rates[i] = Zero)
    /\ (ErrorStage = "rates" => ~StrictlyIncreasing(WindowTimes))

\* a velocity computed from a linear signal of slope # 0 over unevenly
\* spaced, strictly increasing times
C1_Witness ==
    /\ Len(initial_rates) >= 1
    /\ StrictlyIncreasing(WindowTimes)
    /\ LinearInTime(WindowTimes, WindowSignal(1))
    /\ WindowSignal(1)[2] # WindowSignal(1)[1]
    /\ WindowTimes[3] - WindowTimes[2] # WindowTimes[2] - WindowTimes[1]

\* q is the float64 quotient a / b, stated without FDiv: q * b = a when b is
\* finite and not 0, and the IEEE special otherwise
IsQuotient(q, a, b) ==
    IF ~IsFinite(a) \/ ~IsFinite(b) \/ b[1] = 0
    THEN q = IF a = NaN \/ b = NaN THEN NaN
             ELSE IF ~IsFinite(a) /\ ~IsFinite(b) THEN NaN
             ELSE IF ~IsFinite(b) THEN Zero
             ELSE <<Sgn(a[1]) * (IF b[1] < 0 THEN -1 ELSE 1), 0>>
    ELSE IsFinite(q) /\ q[1] * b[1] * a[2] = a[1] * b[2] * q[2]

ResultKeys == <<"Km (uM)", "Vmax (uM/s)", "kcat (s^-1)", "Catalytic Efficiency (M^-1s^-1)">>

\* C2: a returned result holds exactly the four entries Km, Vmax, kcat and
\* catalytic efficiency, with kcat = Vmax / enzyme_concentration and
\* catalytic efficiency = kcat / Km for the Vmax and Km of the same result.
C2_ResultEntries ==
    results # <<>> =>
        /\ Len(results) = 4
        /\ \A j \in 1..4 : results[j][1] = ResultKeys[j]
        /\ results[1][2] = popt[2]
        /\ results[2][2] = popt[1]
        /\ IsQuotient(results[3][2], results[2][2], Float(enzyme_concentration))
        /\ IsQuotient(results[4][2], results[3][2], results[1][2])

\* a result with Vmax > 0, Km > 0 and the default enzyme concentration
C2_Witness ==
    /\ results # <<>>
    /\ results[1][2][1] > 0
    /\ results[2][2][1] > 1
    /\ enzyme_concentration = DefaultEnzymeConcentration

NumDistinctWindowTimes == Cardinality(Range(WindowTimes))

\* C3: if fewer than 2 of the first 5 time points are distinct, the analysis
\* (of a grid with a column, under a valid enzyme concentration) ends with a
\* DegenerateWindowError and yields no velocity and no result.
C3_DegenerateWindowError ==
    (pc # "start" /\ ErrorStage # "load" /\ NumColumns >= 1 /\ NumDistinctWindowTimes < 2
        /\ enzyme_concentration > 0)
    => /\ initial_rates = <<>>
       /\ results = <<>>
       /\ (pc = "rates" \/ error = <<"rates", "DegenerateWindowError">>)

NumDistinctConcentrations == Cardinality(Range(substrate_concentrations))

\* C4: with fewer than 2 distinct concentration values the analysis (of a
\* grid with strictly increasing times, under a valid enzyme concentration)
\* fails with InsufficientDataError before any Km/Vmax is produced; with 2
\* or more it does not fail for that reason.
C4_InsufficientDataError ==
    /\ (pc # "start" /\ ErrorStage # "load" /\ NumDistinctConcentrations < 2
            /\ NumColumns >= 1 /\ StrictlyIncreasing(WindowTimes)
            /\ enzyme_concentration > 0)
       => /\ popt = <<>>
          /\ (ErrorStage = "fit" => ErrorName = "InsufficientDataError")
          /\ pc \in {"rates", "fit", "error"}
    /\ (NumDistinctConcentrations >= 2 => ErrorName # "InsufficientDataError")

\* C5: for every enzyme_concentration <= 0 no kcat is computed and no
\* result is returned: the analysis (here of a grid with strictly increasing
\* times and 2 distinct concentrations) fails with InvalidConfigurationError.
C5_InvalidConfigurationError ==
    (enzyme_concentration <= 0 /\ pc # "start" /\ ErrorStage # "load"
        /\ StrictlyIncreasing(WindowTimes) /\ NumDistinctConcentrations >= 2) =>
        /\ kcat = <<>>
        /\ results = <<>>
        /\ (pc \in {"return", "done"} => ErrorName = "InvalidConfigurationError")

RatesOutputUnset == initial_rates = <<>>

FitOutputUnset == xdata = <<>> /\ ydata = <<>> /\ popt = <<>>

DeriveOutputUnset == kcat = <<>> /\ catalytic_efficiency = <<>>

AllOrNothing ==
    /\ (pc = "error") = (error # <<>>)
    /\ error # <<>> => results = <<>>
    /\ ErrorStage = "load" => RatesOutputUnset /\ FitOutputUnset /\ DeriveOutputUnset
    /\ ErrorStage = "rates" => FitOutputUnset /\ DeriveOutputUnset
    /\ ErrorStage = "fit" => popt = <<>> /\ DeriveOutputUnset
    /\ results # <<>> =>
          /\ pc = "done"
          /\ Len(initial_rates) = NumColumns
          /\ popt # <<>>
          /\ kcat # <<>>
          /\ catalytic_efficiency # <<>>

\* C7: the analysis is all-or-nothing: a failing stage's error reaches the
\* caller at that stage, no later stage has produced anything, no result is
\* returned, and nothing happens after the error; a result is returned only
\* when every stage has succeeded.
C7_AllOrNothing == [](AllOrNothing) /\ [][pc # "error"]_vars

\* the fit failed after loading and rate estimation had succeeded
C7_Witness ==
    /\ ErrorStage = "fit"
    /\ Len(initial_rates) >= 2
    /\ \A i \in 1..Len(initial_rates) : IsFinite(initial_rates[i])

RatesComplete == pc \in {"fit", "derive", "return", "done"} \/ ErrorStage = "fit"

FitCalled == pc \in {"derive", "return", "done"} \/ ErrorStage = "fit"

\* C8: the rate estimator yields exactly N velocities, the i-th from column
\* i; where that column's fitted slope is positive the velocity is the
\* negative number -slope, and curve_fit is handed the velocities unchanged.
C8_NegativeVelocityPassedThrough ==
    /\ RatesComplete => Len(initial_rates) = NumColumns
    /\ FitCalled => ydata = initial_rates
    /\ \A i \in 1..Len(initial_rates) :
          SlopeDen(WindowTimes) # 0 =>
              /\ initial_rates[i][1] * SlopeDen(WindowTimes)
                    = -SlopeNum(WindowTimes, WindowSignal(i)) * initial_rates[i][2]
              /\ (SlopeNum(WindowTimes, WindowSignal(i)) > 0 => initial_rates[i][1] < 0)

\* curve_fit returned after being handed a negative velocity in its second place
C8_Witness ==
    /\ pc = "derive"
    /\ Len(ydata) = 2
    /\ IsFinite(ydata[2])
    /\ ydata[2][1] < 0
    /\ SlopeDen(WindowTimes) # 0

\* the velocities handed to curve_fit are exactly Vmax * S / (Km + S)
GeneratedBy(V, K) ==
    /\ Len(ydata) >= 1
    /\ \A i \in 1..Len(ydata) :
          /\ IsFinite(ydata[i])
          /\ ydata[i][1] * (K + xdata[i][1]) = V * xdata[i][1] * ydata[i][2]

\* x is within 1% of v, relative
WithinOnePercent(x, v) == 100 * Abs(x[1] - v * x[2]) <= v * x[2]

Recovered(V, K) == WithinOnePercent(popt[1], V) /\ WithinOnePercent(popt[2], K)

AltRows == {<<0, 0>>, <<7, 9>>}

AltTails == UNION {[1..n -> AltRows] : n \in 0..(MaxT - num_points_for_slope)}

\* C10: a column's velocity depends only on the first 5 (time, signal)
\* pairs of that column: while and once the velocities are computed, every
\* grid with the same first 5 times and the same first 5 signal values in
\* column i, whatever its later rows, has the same outcomes for column i,
\* the velocity reported among them.
C10_OnlyTheWindowMatters ==
    pc \in {"rates", "fit"} =>
        \A i \in 1..Len(initial_rates) :
            LET here == EstimateRate(time_points, Column(reaction_data, i))
            IN  \A tl \in AltTails :
                    LET t == WindowTimes \o [j \in 1..Len(tl) |-> tl[j][1]]
                        y == WindowSignal(i) \o [j \in 1..Len(tl) |-> tl[j][2]]
                    IN  /\ Ok(FNeg(initial_rates[i])) \in EstimateRate(t, y)
                        /\ EstimateRate(t, y) = here

\* a velocity computed from a grid with a row after the window that a fit
\* over all rows would have given another value
C10_Witness ==
    /\ Len(time_points) > num_points_for_slope
    /\ Len(initial_rates) >= 1
    /\ Ok(FNeg(initial_rates[1])) \notin PolyfitSlope(time_points, Column(reaction_data, 1))

=============================================================================
